---- MODULE Spec2Model ----
(***************************************************************************)
(* Model of the AI Personal Trainer service and app: the Express routes of *)
(* service/routes/reminders.js and the reminderService object of           *)
(* service/db/index.js, which turns each request into one Prisma call on   *)
(* the Reminder table; the calendarEventService object of the same file    *)
(* with its validation helpers; the AuthProvider component and useAuth     *)
(* hook of mobile/src/context/AuthContext.tsx; the documentation cache of  *)
(* service/swagger.js; and the file watcher of service/swagger/watcher.js. *)
(*                                                                         *)
(* Moments are counted in whole days.  An optional value is the empty      *)
(* sequence (undefined / null) or a one-element sequence.                  *)
(***************************************************************************)
EXTENDS Integers, Sequences, FiniteSets, TLC

VARIABLES
    reminders,    \* the Reminder table: id -> row, for the rows that exist
    nextId,       \* the next id the table hands out (ids are never reused)
    now,          \* the server clock read by new Date()
    pending,      \* PATCH /:id/complete requests whose prisma update is awaited
    response,     \* the HTTP response of the request served last, if any
    repeated,     \* history: the last completion found its row already completed
    done,         \* history: the ids of the rows a markCompleted call succeeded on
    changes,      \* history: per id, markCompleted calls that changed the row
    overlapped,   \* history: per id, a completion committed while another was in flight
    events,       \* the CalendarEvent table: id -> row, for the rows that exist
    nextEventId,  \* the next id the CalendarEvent table hands out
    calResult,    \* how the calendarEventService call made last ended
    valInput,     \* the text handed to _validateDate / _validateTime
    valResult,    \* what the validation helper returned or threw
    user,         \* AuthProvider state: the signed-in user, or null (None)
    isLoading,    \* AuthProvider state: an auth operation is running
    storage,      \* AsyncStorage: the items @user_token and @user_data
    tasks,        \* per operation of AuthProvider, the await it stands at
    hookResult,   \* what useAuth returned or threw, inside and outside a provider
    cachedSpecs,  \* swagger.js: the cached specification, or null (None)
    lastGenerated, \* swagger.js: Date.now() of the call that filled the cache, or null
    nodeEnv,      \* process.env.NODE_ENV of the service
    clock,        \* the service clock, Date.now(), in minutes
    generating,   \* the getSwaggerSpecs call awaiting generateDocumentation, if any
    served,       \* how the getSwaggerSpecs call that returned last got its result
    generatedAt,  \* history: Date.now() of the call whose generation succeeded last
    invalidated,  \* history: regenerateSwaggerDocs was called since that moment
    watcher,      \* swagger/watcher.js: the state of the watcher process
    regenerateTimeout, \* swagger/watcher.js: the pending timeout, if any
    ticks,        \* the clock of the watcher process, in half seconds
    issued,       \* the calls of regenerateSwaggerDocs(filePath) made so far
    lastEvent     \* history: the last file event below the watched paths

calendarVars == <<events, nextEventId, calResult>>
validateVars == <<valInput, valResult>>
reminderVars == <<reminders, nextId, now, pending, response, repeated, done, changes, overlapped>>
authVars == <<user, isLoading, storage, tasks, hookResult>>
swaggerVars == <<cachedSpecs, lastGenerated, nodeEnv, clock, generating, served, generatedAt, invalidated>>
watcherVars == <<watcher, regenerateTimeout, ticks, issued, lastEvent>>
toolVars == <<swaggerVars, watcherVars>>
others == <<calendarVars, validateVars, authVars, toolVars>>
vars == <<reminderVars, calendarVars, validateVars, authVars, toolVars>>

----------------------------------------------------------------------------
(* Bounds of the model *)

MaxReminders == 2
MaxTime == 1
MaxInFlight == 2
MaxCount == 2

(* Program constant: the default horizon, `|| 7` and `days = 7` *)
DefaultDays == 7

----------------------------------------------------------------------------
(* Values *)

None == <<>>
Some(x) == <<x>>
IsSome(o) == Len(o) = 1
Val(o) == o[1]

Ids == 1..MaxReminders
Users == {"u1", "u2"}

Min(a, b) == IF a < b THEN a ELSE b

Range(s) == {s[i] : i \in 1..Len(s)}

----------------------------------------------------------------------------
(* Request inputs *)

(* A date text of a request body: the text of a moment, or a text that     *)
(* new Date() cannot read.                                                 *)
DateText(d) == [valid |-> TRUE, day |-> d]
BadDateText == [valid |-> FALSE, day |-> 0]

(* The recurrence fields of a request body: repeatType, repeatUntil and    *)
(* interval.  "absent" is a body that carries no repeatType.               *)
OneTimeRule == [repeatType |-> "absent", repeatUntil |-> None, interval |-> None]
NoneRule    == [repeatType |-> "none",   repeatUntil |-> None, interval |-> None]
DailyRule   == [repeatType |-> "daily",  repeatUntil |-> None, interval |-> Some(1)]
WeeklyRule  == [repeatType |-> "weekly", repeatUntil |-> Some(DateText(0)),
                interval |-> Some(1)]

Rules == {OneTimeRule, NoneRule, DailyRule, WeeklyRule}

(* The due dates that request bodies name *)
DueDates == {0, 2}

Body(u, t, d, r) ==
    [userId |-> u, title |-> t, dueDate |-> d, repeatType |-> r.repeatType,
     repeatUntil |-> r.repeatUntil, interval |-> r.interval]

(* Bodies of POST /api/reminders; "" is a missing userId or title and None *)
(* a missing dueDate.                                                      *)
CreateBodies ==
    { Body("u1", "t1", Some(DateText(d)), r) : d \in DueDates, r \in Rules }
    \cup
    { Body("u2", "t1", Some(DateText(2)), OneTimeRule),
      Body("", "t1", Some(DateText(0)), OneTimeRule),
      Body("u1", "", Some(DateText(0)), OneTimeRule),
      Body("u1", "t1", None, OneTimeRule),
      Body("u1", "t1", Some(BadDateText), OneTimeRule) }

(* Bodies of PUT /api/reminders/:id: every field is optional.              *)
EmptyUpdate ==
    [title |-> None, dueDate |-> None, repeatType |-> None,
     repeatUntil |-> None, interval |-> None]

UpdateBodies ==
    { EmptyUpdate,
      [EmptyUpdate EXCEPT !.title = Some("t1")],
      [EmptyUpdate EXCEPT !.dueDate = Some(BadDateText)],
      [EmptyUpdate EXCEPT !.dueDate = Some(DateText(2))],
      [EmptyUpdate EXCEPT !.repeatType = Some(WeeklyRule.repeatType),
                          !.repeatUntil = WeeklyRule.repeatUntil,
                          !.interval = WeeklyRule.interval] }

(* Bodies that create a recurring reminder *)
RecurringBodies ==
    { Body("u1", "t1", Some(DateText(0)), r) : r \in {DailyRule, WeeklyRule} }

(* Values of the days query parameter of GET /upcoming/:userId after       *)
(* parseInt: None is an absent or non-numeric parameter (NaN).             *)
DaysParams == {None, Some(0), Some(1)}

----------------------------------------------------------------------------
(* reminderService: one Prisma call each *)

(* new Date(text): the moment the text names, or None for Invalid Date *)
NewDate(text) == IF text.valid THEN Some(text.day) ELSE None

(* a Date that Prisma refuses to write: Invalid Date *)
InvalidDate(o) == IsSome(o) /\ ~IsSome(NewDate(Val(o)))

(* reminderService.create: the row prisma.reminder.create stores *)
create(reminderData) ==
    [ userId      |-> reminderData.userId,
      title       |-> reminderData.title,
      dueDate     |-> Val(NewDate(Val(reminderData.dueDate))),
      repeatType  |-> reminderData.repeatType,
      repeatUntil |-> IF IsSome(reminderData.repeatUntil)
                      THEN NewDate(Val(reminderData.repeatUntil))
                      ELSE None,
      interval    |-> reminderData.interval,
      completed   |-> FALSE ]

(* mutants of the where clause: without the completed filter, and with lt  *)
(* in place of lte                                                         *)
UpcomingWhere_NoCompleted(row, userId, endDate) ==
    /\ row.userId = userId
    /\ row.dueDate <= endDate

UpcomingWhere_Lt(row, userId, endDate) ==
    /\ row.userId = userId
    /\ row.completed = FALSE
    /\ row.dueDate < endDate

(* the where clause of reminderService.getUpcoming *)
UpcomingWhere(row, userId, endDate) ==
    /\ row.userId = userId
    /\ row.completed = FALSE
    /\ row.dueDate <= endDate

(* orderBy: { dueDate: 'asc' }: the rows in ascending dueDate; the order   *)
(* of rows with equal dueDate is whatever the database produces            *)
OrderedByDueDate(table, ids) ==
    { s \in [1..Cardinality(ids) -> ids] :
        /\ \A i, j \in 1..Cardinality(ids) : i # j => s[i] # s[j]
        /\ \A i, j \in 1..Cardinality(ids) :
              i < j => table[s[i]].dueDate <= table[s[j]].dueDate }

(* reminderService.getUpcoming(userId, days) at clock t: the possible      *)
(* result sequences (of ids of rows)                                       *)
getUpcoming(table, userId, days, t) ==
    LET endDate == t + days
    IN  OrderedByDueDate(table,
            { id \in DOMAIN table : UpcomingWhere(table[id], userId, endDate) })

(* mutants of markCompleted: a toggle of the flag, and a read-modify-write  *)
(* that moves the row to its next occurrence                               *)
markCompleted_Toggle(row) == [row EXCEPT !.completed = ~@]

markCompleted_Advance(row) == [row EXCEPT !.completed = TRUE, !.dueDate = @ + 1]

(* reminderService.markCompleted: data: { completed: true } *)
markCompleted_ClearsRepeatUntil(row) ==
    [row EXCEPT !.completed = TRUE, !.repeatUntil = None]

markCompleted(row) == [row EXCEPT !.completed = TRUE]

(* mutant of update: the written data carries completed: false *)
update_ResetsCompleted(row, reminderData) ==
    [ row EXCEPT
        !.completed   = FALSE,
        !.repeatType  = IF IsSome(reminderData.repeatType)
                        THEN Val(reminderData.repeatType) ELSE @,
        !.dueDate     = IF IsSome(reminderData.dueDate)
                        THEN Val(NewDate(Val(reminderData.dueDate))) ELSE @ ]

(* reminderService.update: the spread of reminderData, with dueDate and    *)
(* repeatUntil replaced by a Date when truthy and left alone otherwise     *)
update(row, reminderData) ==
    [ row EXCEPT
        !.title       = IF IsSome(reminderData.title)
                        THEN Val(reminderData.title) ELSE @,
        !.repeatType  = IF IsSome(reminderData.repeatType)
                        THEN Val(reminderData.repeatType) ELSE @,
        !.interval    = IF IsSome(reminderData.interval)
                        THEN reminderData.interval ELSE @,
        !.dueDate     = IF IsSome(reminderData.dueDate)
                        THEN Val(NewDate(Val(reminderData.dueDate))) ELSE @,
        !.repeatUntil = IF IsSome(reminderData.repeatUntil)
                        THEN NewDate(Val(reminderData.repeatUntil)) ELSE @ ]

(* reminderService.delete: the table without the row *)
delete(table, id) == [i \in DOMAIN table \ {id} |-> table[i]]

----------------------------------------------------------------------------
(* The routes of service/routes/reminders.js *)

Reply(op, status, ids) ==
    [op |-> op, status |-> status, ids |-> ids, userId |-> "", days |-> 0]

NoResponse == Reply("none", 0, <<>>)

Bump(f, id) == [f EXCEPT ![id] = Min(@ + 1, MaxCount)]

InFlight == LET Sum[n \in 0..MaxReminders] ==
                    IF n = 0 THEN 0 ELSE pending[n] + Sum[n - 1]
            IN  Sum[MaxReminders]

history == <<changes, overlapped>>

InitReminders ==
    /\ reminders = <<>>
    /\ nextId = 1
    /\ now = 0
    /\ pending = [id \in Ids |-> 0]
    /\ response = NoResponse
    /\ repeated = FALSE
    /\ done = {}
    /\ changes = [id \in Ids |-> 0]
    /\ overlapped = [id \in Ids |-> FALSE]

(* the server clock advances between two requests *)
Tick ==
    /\ now < MaxTime
    /\ now' = now + 1
    /\ response' = NoResponse
    /\ UNCHANGED <<reminders, nextId, pending, repeated, done, history>>
    /\ UNCHANGED others

(* POST /api/reminders *)
PostReminder(body) ==
    /\ IF body.userId = "" \/ body.title = "" \/ ~IsSome(body.dueDate)
       THEN /\ response' = Reply("create", 400, <<>>)
            /\ UNCHANGED <<reminders, nextId>>
       ELSE IF InvalidDate(body.dueDate) \/ InvalidDate(body.repeatUntil)
       THEN /\ response' = Reply("create", 500, <<>>)
            /\ UNCHANGED <<reminders, nextId>>
       ELSE /\ nextId <= MaxReminders
            /\ reminders' = reminders @@ (nextId :> create(body))
            /\ nextId' = nextId + 1
            /\ response' = Reply("create", 201, <<>>)
    /\ UNCHANGED <<now, pending, repeated, done, history>>
    /\ UNCHANGED others

(* const days = parseInt(req.query.days) || 7 *)
RouteDays(q) == IF IsSome(q) /\ Val(q) # 0 THEN Val(q) ELSE DefaultDays

(* mutant of the upcoming route: the query marks the rows it returns *)
GetUpcoming_Marking(userId, q) ==
    /\ \E s \in getUpcoming(reminders, userId, RouteDays(q), now) :
          /\ response' = [op |-> "upcoming", status |-> 200, ids |-> s,
                          userId |-> userId, days |-> RouteDays(q)]
          /\ reminders' = [id \in DOMAIN reminders |->
                              IF id \in Range(s) THEN markCompleted(reminders[id])
                              ELSE reminders[id]]
    /\ UNCHANGED <<nextId, now, pending, repeated, done, history>>
    /\ UNCHANGED others

(* GET /api/reminders/upcoming/:userId *)
GetUpcoming(userId, q) ==
    /\ \E s \in getUpcoming(reminders, userId, RouteDays(q), now) :
          response' = [op |-> "upcoming", status |-> 200, ids |-> s,
                       userId |-> userId, days |-> RouteDays(q)]
    /\ UNCHANGED <<reminders, nextId, now, pending, repeated, done, history>>
    /\ UNCHANGED others

(* The body of PATCH /api/reminders/:id/complete once the database applies *)
(* the update: a missing row makes prisma throw, which the route answers   *)
(* with 500                                                                *)
CompleteAndReply(id) ==
    IF id \in DOMAIN reminders
    THEN /\ reminders' = [reminders EXCEPT ![id] = markCompleted(@)]
         /\ response' = Reply("complete", 200, <<id>>)
         /\ repeated' = reminders[id].completed
         /\ done' = done \cup {id}
    ELSE /\ response' = Reply("complete", 500, <<>>)
         /\ UNCHANGED <<reminders, repeated, done>>

(* history of a completion of row id: whether it changed the stored row,   *)
(* and whether another completion of the same row was in flight            *)
NoteCompletion(id) ==
    IF id \in DOMAIN reminders
    THEN /\ changes' = IF reminders'[id] # reminders[id]
                       THEN Bump(changes, id) ELSE changes
         /\ overlapped' = [overlapped EXCEPT ![id] = @ \/ pending[id] > 1]
    ELSE UNCHANGED history

(* PATCH /api/reminders/:id/complete, served without another request in    *)
(* between                                                                 *)
PatchComplete(id) ==
    /\ CompleteAndReply(id)
    /\ NoteCompletion(id)
    /\ UNCHANGED <<nextId, now, pending>>
    /\ UNCHANGED others

(* PATCH /api/reminders/:id/complete: the request arrives and the handler  *)
(* awaits reminderService.markCompleted                                    *)
PatchCompleteReceive(id) ==
    /\ InFlight < MaxInFlight
    /\ pending' = [pending EXCEPT ![id] = @ + 1]
    /\ UNCHANGED <<reminders, nextId, now, response, repeated, done, history>>
    /\ UNCHANGED others

(* PATCH /api/reminders/:id/complete: the awaited update is applied and    *)
(* the handler answers                                                     *)
PatchCompleteCommit(id) ==
    /\ pending[id] > 0
    /\ pending' = [pending EXCEPT ![id] = @ - 1]
    /\ CompleteAndReply(id)
    /\ NoteCompletion(id)
    /\ UNCHANGED <<nextId, now>>
    /\ UNCHANGED others

(* PUT /api/reminders/:id *)
PutReminder(id, body) ==
    /\ IF id \in DOMAIN reminders
          /\ ~InvalidDate(body.dueDate) /\ ~InvalidDate(body.repeatUntil)
       THEN /\ reminders' = [reminders EXCEPT ![id] = update(@, body)]
            /\ response' = Reply("update", 200, <<>>)
       ELSE /\ response' = Reply("update", 500, <<>>)
            /\ UNCHANGED reminders
    /\ UNCHANGED <<nextId, now, pending, repeated, done, history>>
    /\ UNCHANGED others

(* DELETE /api/reminders/:id *)
DeleteReminder(id) ==
    /\ IF id \in DOMAIN reminders
       THEN /\ reminders' = delete(reminders, id)
            /\ response' = Reply("delete", 200, <<>>)
            /\ done' = done \ {id}
            /\ changes' = [changes EXCEPT ![id] = 0]
            /\ overlapped' = [overlapped EXCEPT ![id] = FALSE]
       ELSE /\ response' = Reply("delete", 500, <<>>)
            /\ UNCHANGED <<reminders, done, history>>
    /\ UNCHANGED <<nextId, now, pending, repeated>>
    /\ UNCHANGED others

----------------------------------------------------------------------------
(* Dates and times as calendarEventService receives them *)

(* A text is '' or has a form.  A date text of the form NNNN-NN-NN spells  *)
(* three numbers; any other date text is "junk".  A time text is two runs  *)
(* of digits around a separator.                                           *)
EmptyText == [form |-> "empty"]
JunkDateText == [form |-> "junk"]
YmdText(y, m, d) == [form |-> "ymd", y |-> y, m |-> m, d |-> d]
TimeText(h, sep, m) == [form |-> "time", hour |-> h, sep |-> sep, minute |-> m]

(* `x ? ... : null` on an optional text: undefined and '' are both falsy *)
Truthy(o) == IsSome(o) /\ Val(o).form # "empty"

(* The Date built-in: day number of a civil date, counted from 1970-01-01, *)
(* with days beyond the end of the month carried into the next month       *)
IsLeapYear(y) == (y % 4 = 0 /\ y % 100 # 0) \/ y % 400 = 0

DaysInMonth(y, m) ==
    IF m = 2 THEN (IF IsLeapYear(y) THEN 29 ELSE 28)
    ELSE IF m \in {4, 6, 9, 11} THEN 30 ELSE 31

DayFromYear(y) ==
    365 * (y - 1970) + ((y - 1969) \div 4) - ((y - 1901) \div 100)
        + ((y - 1601) \div 400)

DaysBeforeMonth(y, m) ==
    LET S[k \in 1..12] == IF k = 1 THEN 0 ELSE S[k - 1] + DaysInMonth(y, k - 1)
    IN  S[m]

MakeDay(y, m, d) == DayFromYear(y) + DaysBeforeMonth(y, m) + d - 1

(* 0 = Sunday ... 6 = Saturday *)
WeekDay(day) == (day + 4) % 7

(* new Date(text) for a text of the date-only form: the month must be      *)
(* 1..12 and the day 1..31, else the Date is Invalid (None); the day is    *)
(* not checked against the length of the month.  Any junk text is Invalid. *)
NewDateYmd(text) ==
    IF text.form = "ymd" /\ text.m \in 1..12 /\ text.d \in 1..31
    THEN Some(MakeDay(text.y, text.m, text.d))
    ELSE None

(* What a helper hands back: a value, or an Error thrown *)
Value(x) == [kind |-> "value", value |-> x, error |-> ""]
Thrown(msg) == [kind |-> "throw", value |-> None, error |-> msg]

(* /^\d{4}-\d{2}-\d{2}$/ *)
DateRegexTest(text) == text.form = "ymd"

validateDate(date) ==
    IF date.form = "empty" THEN Value(None)
    ELSE IF ~DateRegexTest(date) THEN Thrown("Invalid date format. Use YYYY-MM-DD")
    ELSE IF ~IsSome(NewDateYmd(date)) THEN Thrown("Invalid date value")
    ELSE Value(NewDateYmd(date))

(* /^([0-1]?[0-9]|2[0-3]):[0-5][0-9]$/ *)
HourMatches(h) ==
    \/ Len(h) = 1
    \/ Len(h) = 2 /\ h[1] \in {0, 1}
    \/ Len(h) = 2 /\ h[1] = 2 /\ h[2] \in 0..3

MinuteMatches(m) == Len(m) = 2 /\ m[1] \in 0..5

TimeRegexTest(text) ==
    /\ text.form = "time"
    /\ text.sep = ":"
    /\ HourMatches(text.hour)
    /\ MinuteMatches(text.minute)

validateTime(time) ==
    IF time.form = "empty" THEN Value(None)
    ELSE IF ~TimeRegexTest(time) THEN Thrown("Invalid time format. Use HH:mm (24-hour format)")
    ELSE Value(Some(time))

(* The texts the helpers are tried on *)
DateTexts ==
    {YmdText(y, m, d) : y \in {2023, 2024}, m \in {0, 2, 3, 4, 12, 13},
                        d \in {0, 1, 28, 29, 30, 31, 32}}
        \cup {JunkDateText, EmptyText}

HourTexts ==
    {<<a>> : a \in {0, 2, 9}} \cup {<<a, b>> : a \in {0, 1, 2, 3}, b \in {0, 3, 4, 9}}
        \cup {<<>>, <<0, 0, 9>>}

MinuteTexts == {<<>>, <<5>>, <<0, 0>>, <<3, 0>>, <<5, 9>>, <<6, 0>>, <<3, 0, 0>>}

TimeTexts ==
    {TimeText(h, sep, m) : h \in HourTexts, sep \in {":", "."}, m \in MinuteTexts}
        \cup {EmptyText}

NoInput == [form |-> "none"]
NoResult == [kind |-> "none", value |-> None, error |-> ""]

InitValidate ==
    /\ valInput = NoInput
    /\ valResult = NoResult

ValidateDate ==
    /\ valInput \in DateTexts
    /\ valResult = NoResult
    /\ valResult' = validateDate(valInput)
    /\ UNCHANGED <<valInput, reminderVars, calendarVars, authVars, toolVars>>

ValidateTime ==
    /\ valInput \in TimeTexts
    /\ valResult = NoResult
    /\ valResult' = validateTime(valInput)
    /\ UNCHANGED <<valInput, reminderVars, calendarVars, authVars, toolVars>>

----------------------------------------------------------------------------
(* calendarEventService: each call validates, then makes one Prisma call   *)
(* on the CalendarEvent table                                              *)

MaxEvents == 2

EventIds == 1..MaxEvents

EventData(u, date, time, recurring, days, endDate) ==
    [userId |-> u, title |-> "e", date |-> date, time |-> time,
     recurring |-> recurring, recurringDays |-> days, recurringEndDate |-> endDate]

HalfPastNine == TimeText(<<0, 9>>, ":", <<3, 0>>)

(* the event data create is called with: a weekly event on Monday          *)
(* 2024-03-04 repeating on Mondays and Wednesdays, an end date and a date  *)
(* past the end of February, and data that fails a check                   *)
EventBodies ==
    { EventData("u1", Some(YmdText(2024, 3, 4)), Some(HalfPastNine),
                Some("weekly"), Some({1, 3}), None),
      EventData("u1", Some(YmdText(2024, 3, 4)), None,
                Some("daily"), None, Some(YmdText(2024, 2, 30))),
      EventData("u1", Some(YmdText(2024, 3, 4)), None,
                Some("daily"), None, Some(JunkDateText)),
      EventData("u2", Some(YmdText(2024, 2, 30)), None, None, None, None),
      EventData("u1", Some(YmdText(2024, 13, 1)), None, None, None, None),
      EventData("u1", Some(JunkDateText), None, None, None, None),
      EventData("u1", Some(YmdText(2024, 3, 4)),
                Some(TimeText(<<2, 5>>, ":", <<0, 0>>)), None, None, None),
      EventData("u1", None, Some(HalfPastNine), None, None, None),
      EventData("u1", Some(EmptyText), None, None, None, None) }

(* the fields update looks at; None is undefined *)
EventUpdate(title, date, time) == [title |-> title, date |-> date, time |-> time]

EventUpdates ==
    { EventUpdate(None, None, None),
      EventUpdate(Some("e2"), Some(YmdText(2024, 3, 6)), Some(HalfPastNine)),
      EventUpdate(Some("e2"), Some(JunkDateText), None),
      EventUpdate(Some("e2"), Some(YmdText(2024, 0, 1)), None),
      EventUpdate(Some("e2"), None, Some(TimeText(<<9>>, ".", <<3, 0>>))) }

(* create, up to the prisma call: the row to insert, or the Error thrown *)
calendarCreate(eventData) ==
    LET date == IF Truthy(eventData.date)
                THEN validateDate(Val(eventData.date)) ELSE Value(None)
        time == IF Truthy(eventData.time)
                THEN validateTime(Val(eventData.time)) ELSE Value(None)
    IN  IF date.kind = "throw" THEN date
        ELSE IF time.kind = "throw" THEN time
        ELSE IF ~IsSome(date.value)
        THEN Thrown("Event date is required (YYYY-MM-DD format)")
        ELSE Value([userId |-> eventData.userId,
                    title |-> eventData.title,
                    date |-> date.value,
                    time |-> time.value,
                    recurring |-> eventData.recurring,
                    recurringDays |-> eventData.recurringDays,
                    recurringEndDate |->
                        IF Truthy(eventData.recurringEndDate)
                        THEN Some(NewDateYmd(Val(eventData.recurringEndDate)))
                        ELSE None,        \* Some(None) is an Invalid Date
                    completed |-> FALSE])

(* Prisma refuses a DateTime that is an Invalid Date *)
PrismaRejects(data) ==
    IsSome(data.recurringEndDate) /\ ~IsSome(Val(data.recurringEndDate))

(* the row prisma.calendarEvent.create stores *)
StoredEvent(data) ==
    [data EXCEPT !.date = Val(@),
                 !.recurringEndDate = IF IsSome(@) THEN Val(@) ELSE None]

(* update, up to the prisma call: updateData, or the Error thrown.  A      *)
(* field of updateData that was not set is None.                           *)
calendarUpdate(eventData) ==
    LET date == IF Truthy(eventData.date)
                THEN validateDate(Val(eventData.date)) ELSE Value(None)
        time == IF Truthy(eventData.time)
                THEN validateTime(Val(eventData.time)) ELSE Value(None)
    IN  IF date.kind = "throw" THEN date
        ELSE IF time.kind = "throw" THEN time
        ELSE IF ~IsSome(eventData.title) /\ ~IsSome(eventData.date)
                /\ ~IsSome(eventData.time)
        THEN Thrown("No valid fields to update")
        ELSE Value([title |-> eventData.title,
                    date |-> IF IsSome(eventData.date) THEN Some(date.value) ELSE None,
                    time |-> IF IsSome(eventData.time) THEN Some(time.value) ELSE None])

(* prisma.calendarEvent.update applied to a row (the dates tried are never *)
(* '', so a date that is set is a Date)                                    *)
ApplyUpdateData(row, updateData) ==
    [row EXCEPT !.title = IF IsSome(updateData.title) THEN Val(updateData.title) ELSE @,
                !.date = IF IsSome(updateData.date) THEN Val(Val(updateData.date)) ELSE @,
                !.time = IF IsSome(updateData.time) THEN Val(updateData.time) ELSE @]

(* getByUser: the dates of the user's rows, in the order of orderBy date *)
getByUserDates(table, userId) ==
    LET ids == {i \in DOMAIN table : table[i].userId = userId}
        n == Cardinality(ids)
        ord == CHOOSE s \in [1..n -> ids] :
                   \A i, j \in 1..n :
                       i < j => s[i] # s[j] /\ table[s[i]].date <= table[s[j]].date
    IN  [k \in 1..n |-> table[ord[k]].date]

CalResult(op, outcome, dates) ==
    [op |-> op, ok |-> outcome.kind = "value", error |-> outcome.error,
     dates |-> dates]

NoCalResult == [op |-> "none", ok |-> TRUE, error |-> "", dates |-> <<>>]

NotFound == Thrown("Record to update not found")

InitCalendar ==
    /\ events = <<>>
    /\ nextEventId = 1
    /\ calResult = NoCalResult

CalendarCreate(eventData) ==
    LET outcome == calendarCreate(eventData)
    IN  /\ IF outcome.kind = "throw"
           THEN /\ calResult' = CalResult("create", outcome, <<>>)
                /\ UNCHANGED <<events, nextEventId>>
           ELSE IF PrismaRejects(outcome.value)
           THEN /\ calResult' = CalResult("create", Thrown("Invalid Date"), <<>>)
                /\ UNCHANGED <<events, nextEventId>>
           ELSE /\ nextEventId <= MaxEvents
                /\ events' = events @@ (nextEventId :> StoredEvent(outcome.value))
                /\ nextEventId' = nextEventId + 1
                /\ calResult' = CalResult("create", outcome, <<>>)
        /\ UNCHANGED <<reminderVars, validateVars, authVars, toolVars>>

CalendarGetByUser(userId) ==
    /\ calResult' = CalResult("getByUser", Value(None), getByUserDates(events, userId))
    /\ UNCHANGED <<events, nextEventId, reminderVars, validateVars, authVars, toolVars>>

CalendarUpdate_TitleFirst(eventId, eventData) ==
    LET outcome == calendarUpdate(eventData)
    IN  /\ IF eventId \notin DOMAIN events
           THEN /\ calResult' = CalResult("update", IF outcome.kind = "throw"
                                                    THEN outcome ELSE NotFound, <<>>)
                /\ UNCHANGED events
           ELSE IF outcome.kind = "throw"
           THEN /\ calResult' = CalResult("update", outcome, <<>>)
                /\ events' = [events EXCEPT ![eventId].title =
                                 IF IsSome(eventData.title) THEN Val(eventData.title) ELSE @]
           ELSE /\ events' = [events EXCEPT ![eventId] = ApplyUpdateData(@, outcome.value)]
                /\ calResult' = CalResult("update", outcome, <<>>)
        /\ UNCHANGED <<nextEventId, reminderVars, validateVars, authVars, toolVars>>

CalendarUpdate(eventId, eventData) ==
    LET outcome == calendarUpdate(eventData)
    IN  /\ IF outcome.kind = "throw"
           THEN /\ calResult' = CalResult("update", outcome, <<>>)
                /\ UNCHANGED events
           ELSE IF eventId \notin DOMAIN events
           THEN /\ calResult' = CalResult("update", NotFound, <<>>)
                /\ UNCHANGED events
           ELSE /\ events' = [events EXCEPT ![eventId] = ApplyUpdateData(@, outcome.value)]
                /\ calResult' = CalResult("update", outcome, <<>>)
        /\ UNCHANGED <<nextEventId, reminderVars, validateVars, authVars, toolVars>>

CalendarDelete(eventId) ==
    /\ IF eventId \in DOMAIN events
       THEN /\ events' = [i \in DOMAIN events \ {eventId} |-> events[i]]
            /\ calResult' = CalResult("delete", Value(None), <<>>)
       ELSE /\ calResult' = CalResult("delete", NotFound, <<>>)
            /\ UNCHANGED events
    /\ UNCHANGED <<nextEventId, reminderVars, validateVars, authVars, toolVars>>

----------------------------------------------------------------------------
(* AuthContext.tsx: the AuthProvider component, its operations, and the    *)
(* useAuth hook.  Every operation is a sequence of steps, one per await.   *)

AuthUser == "alice"
RenamedUser == "alice2"
Token == "token"

NoSession == [token |-> None, data |-> None]
StoredSession == [token |-> Some(Token), data |-> Some(AuthUser)]

Task(pc, token) == [pc |-> pc, token |-> token]
Idle == Task("idle", None)

SignOps == {"signIn", "signUp"}
FetchOutcomes == {"success", "failure", "throw"}

(* AuthProvider has rendered: user null, isLoading true, and the effect    *)
(* that calls checkAuthState is about to run                               *)
InitAuth ==
    /\ user = None
    /\ isLoading = TRUE
    /\ storage = NoSession
    /\ tasks = [checkAuthState |-> Task("start", None), signIn |-> Idle,
                signUp |-> Idle, signOut |-> Idle]
    /\ hookResult = [inside |-> NoResult, outside |-> NoResult]

AuthFrame == UNCHANGED <<reminderVars, calendarVars, validateVars, toolVars>>

(* checkAuthState: AsyncStorage.getItem(STORAGE_KEY) *)
CheckGetToken ==
    /\ tasks.checkAuthState.pc = "start"
    /\ IF IsSome(storage.token)
       THEN /\ tasks' = [tasks EXCEPT !.checkAuthState = Task("fetch", storage.token)]
            /\ UNCHANGED isLoading
       ELSE /\ tasks' = [tasks EXCEPT !.checkAuthState = Task("done", None)]
            /\ isLoading' = FALSE
    /\ UNCHANGED <<user, storage, hookResult>>
    /\ AuthFrame

CheckFetch_KeepsStorage(outcome) ==
    /\ tasks.checkAuthState.pc = "fetch"
    /\ user' = IF outcome = "success" THEN Some(AuthUser) ELSE user
    /\ isLoading' = FALSE
    /\ tasks' = [tasks EXCEPT !.checkAuthState = Task("done", None)]
    /\ UNCHANGED <<storage, hookResult>>
    /\ AuthFrame

(* checkAuthState: fetch /api/auth/me and response.json(); "failure" is a  *)
(* response that is not ok or whose success is false                       *)
CheckFetch(outcome) ==
    /\ tasks.checkAuthState.pc = "fetch"
    /\ IF outcome = "success"
       THEN /\ user' = Some(AuthUser)
            /\ isLoading' = FALSE
            /\ tasks' = [tasks EXCEPT !.checkAuthState = Task("done", None)]
       ELSE /\ tasks' = [tasks EXCEPT !.checkAuthState = Task("removeToken", None)]
            /\ UNCHANGED <<user, isLoading>>
    /\ UNCHANGED <<storage, hookResult>>
    /\ AuthFrame

(* checkAuthState: AsyncStorage.removeItem(STORAGE_KEY) *)
CheckRemoveToken ==
    /\ tasks.checkAuthState.pc = "removeToken"
    /\ storage' = [storage EXCEPT !.token = None]
    /\ tasks' = [tasks EXCEPT !.checkAuthState = Task("removeData", None)]
    /\ UNCHANGED <<user, isLoading, hookResult>>
    /\ AuthFrame

(* checkAuthState: AsyncStorage.removeItem(USER_KEY), then finally *)
CheckRemoveData ==
    /\ tasks.checkAuthState.pc = "removeData"
    /\ storage' = [storage EXCEPT !.data = None]
    /\ isLoading' = FALSE
    /\ tasks' = [tasks EXCEPT !.checkAuthState = Task("done", None)]
    /\ UNCHANGED <<user, hookResult>>
    /\ AuthFrame

(* signIn / signUp: setIsLoading(true), up to the fetch *)
SignStart(op) ==
    /\ tasks[op].pc = "idle"
    /\ isLoading' = TRUE
    /\ tasks' = [tasks EXCEPT ![op] = Task("fetch", None)]
    /\ UNCHANGED <<user, storage, hookResult>>
    /\ AuthFrame

SignFetch_NoFinally(op, outcome) ==
    /\ tasks[op].pc = "fetch"
    /\ IF outcome = "success"
       THEN tasks' = [tasks EXCEPT ![op] = Task("setToken", Some(Token))]
       ELSE tasks' = [tasks EXCEPT ![op] = Idle]
    /\ UNCHANGED <<user, isLoading, storage, hookResult>>
    /\ AuthFrame

(* signIn / signUp: the fetch and response.json() return or throw *)
SignFetch(op, outcome) ==
    /\ tasks[op].pc = "fetch"
    /\ IF outcome = "success"
       THEN /\ tasks' = [tasks EXCEPT ![op] = Task("setToken", Some(Token))]
            /\ UNCHANGED isLoading
       ELSE /\ tasks' = [tasks EXCEPT ![op] = Idle]
            /\ isLoading' = FALSE
    /\ UNCHANGED <<user, storage, hookResult>>
    /\ AuthFrame

(* signIn / signUp: AsyncStorage.setItem(STORAGE_KEY, token) *)
SignSetToken(op) ==
    /\ tasks[op].pc = "setToken"
    /\ storage' = [storage EXCEPT !.token = tasks[op].token]
    /\ tasks' = [tasks EXCEPT ![op] = Task("setData", None)]
    /\ UNCHANGED <<user, isLoading, hookResult>>
    /\ AuthFrame

(* signIn / signUp: AsyncStorage.setItem(USER_KEY, ...), setUser, finally *)
SignSetData(op) ==
    /\ tasks[op].pc = "setData"
    /\ storage' = [storage EXCEPT !.data = Some(AuthUser)]
    /\ user' = Some(AuthUser)
    /\ isLoading' = FALSE
    /\ tasks' = [tasks EXCEPT ![op] = Idle]
    /\ UNCHANGED hookResult
    /\ AuthFrame

(* signOut: AsyncStorage.getItem(STORAGE_KEY) *)
SignOutGetToken ==
    /\ tasks.signOut.pc = "idle"
    /\ tasks' = [tasks EXCEPT !.signOut =
                    IF IsSome(storage.token) THEN Task("logout", storage.token)
                    ELSE Task("removeToken", None)]
    /\ UNCHANGED <<user, isLoading, storage, hookResult>>
    /\ AuthFrame

LogoutOutcomes == {"returns", "throws"}

SignOutLogout_Aborts(outcome) ==
    /\ tasks.signOut.pc = "logout"
    /\ tasks' = [tasks EXCEPT !.signOut =
                    IF outcome = "throws" THEN Idle ELSE Task("removeToken", None)]
    /\ UNCHANGED <<user, isLoading, storage, hookResult>>
    /\ AuthFrame

(* signOut: the logout fetch returns (ok or not) or throws; a throw is     *)
(* caught by the inner try and only logged                                 *)
SignOutLogout(outcome) ==
    /\ tasks.signOut.pc = "logout"
    /\ outcome \in LogoutOutcomes
    /\ tasks' = [tasks EXCEPT !.signOut = Task("removeToken", None)]
    /\ UNCHANGED <<user, isLoading, storage, hookResult>>
    /\ AuthFrame

(* signOut: AsyncStorage.removeItem(STORAGE_KEY) *)
SignOutRemoveToken ==
    /\ tasks.signOut.pc = "removeToken"
    /\ storage' = [storage EXCEPT !.token = None]
    /\ tasks' = [tasks EXCEPT !.signOut = Task("removeData", None)]
    /\ UNCHANGED <<user, isLoading, hookResult>>
    /\ AuthFrame

(* signOut: AsyncStorage.removeItem(USER_KEY), then setUser(null) *)
SignOutRemoveData ==
    /\ tasks.signOut.pc = "removeData"
    /\ storage' = [storage EXCEPT !.data = None]
    /\ user' = None
    /\ tasks' = [tasks EXCEPT !.signOut = Idle]
    /\ UNCHANGED <<isLoading, hookResult>>
    /\ AuthFrame

(* updateUser: a signed-in user is replaced in state and in storage *)
UpdateUser(name) ==
    /\ IF IsSome(user)
       THEN /\ user' = Some(name)
            /\ storage' = [storage EXCEPT !.data = Some(name)]
       ELSE UNCHANGED <<user, storage>>
    /\ UNCHANGED <<isLoading, tasks, hookResult>>
    /\ AuthFrame

(* an operation of AuthProvider stands at an await *)
Busy == \E op \in DOMAIN tasks : tasks[op].pc \notin {"idle", "done"}

(* AppNavigator: the screen shown for a context value *)
AppNavigator(context) ==
    IF context.isLoading THEN "LoadingScreen"
    ELSE IF IsSome(context.user) THEN "AppStack" ELSE "AuthStack"

(* the value AuthProvider hands to AuthContext.Provider *)
ContextValue == [user |-> user, isLoading |-> isLoading]

(* useContext(AuthContext): the value of the nearest AuthProvider above    *)
(* the component, or the default of createContext, undefined (None)        *)
useContext(inside) == IF inside THEN Some(ContextValue) ELSE None

useAuth_Unchecked(inside) == Value(useContext(inside))

useAuth(inside) ==
    LET context == useContext(inside)
    IN  IF context = None
        THEN Thrown("useAuth must be used within an AuthProvider")
        ELSE Value(context)

(* a component calls useAuth while it renders, below an AuthProvider or    *)
(* with none above it; hookResult keeps the last outcome of either kind    *)
Render(inside) ==
    /\ hookResult' = IF inside THEN [hookResult EXCEPT !.inside = useAuth(TRUE)]
                               ELSE [hookResult EXCEPT !.outside = useAuth(FALSE)]
    /\ UNCHANGED <<user, isLoading, storage, tasks>>
    /\ AuthFrame

----------------------------------------------------------------------------
(* GET /api/reminders/user/:userId *)

(* values of the includeCompleted query parameter; None is an absent one *)
IncludeParams == {None, Some("true"), Some("false"), Some("TRUE"), Some("1")}

IncludeCompleted_Truthy(param) == IsSome(param)

(* const includeCompleted = req.query.includeCompleted === 'true' *)
IncludeCompleted(param) == param = Some("true")

(* reminderService.getByUser: the possible result sequences (of ids) *)
getByUser(table, userId, includeCompleted) ==
    OrderedByDueDate(table,
        { id \in DOMAIN table :
              /\ table[id].userId = userId
              /\ includeCompleted \/ ~table[id].completed })

GetByUser(userId, param) ==
    /\ \E s \in getByUser(reminders, userId, IncludeCompleted(param)) :
          response' = [op |-> "byUser", status |-> 200, ids |-> s,
                       userId |-> userId, days |-> 0]
    /\ UNCHANGED <<reminders, nextId, now, pending, repeated, done, history>>
    /\ UNCHANGED others

(***************************************************************************)
(* service/swagger.js: the cached API documentation.  The clock counts     *)
(* minutes and starts at 1, as Date.now() is never 0.  A specification is  *)
(* named by the Date.now() of the call that generated it.                  *)
(***************************************************************************)
MaxClock == 6
MaxGenerating == 1
CACHE_DURATION == 5
NodeEnvs == {"production", "development"}
GenerateOutcomes == {"specs", "throws", "disconnectThrows"}

InitSwagger ==
    /\ cachedSpecs = None
    /\ lastGenerated = None
    /\ nodeEnv = "production"
    /\ clock = 1
    /\ generating = <<>>
    /\ served = "nothing"
    /\ generatedAt = None
    /\ invalidated = FALSE

SwaggerFrame == UNCHANGED <<reminderVars, calendarVars, validateVars, authVars, watcherVars>>

\* the condition of the early return in getSwaggerSpecs
CacheHit ==
    /\ IsSome(cachedSpecs) /\ IsSome(lastGenerated)
    /\ nodeEnv = "production"
    /\ clock - Val(lastGenerated) < CACHE_DURATION

RemoveAt(seq, i) == SubSeq(seq, 1, i - 1) \o SubSeq(seq, i + 1, Len(seq))

\* a minute passes on the service clock
ClockTick ==
    /\ clock < MaxClock
    /\ clock' = clock + 1
    /\ UNCHANGED <<cachedSpecs, lastGenerated, nodeEnv, generating, served,
                   generatedAt, invalidated>>
    /\ SwaggerFrame

\* getSwaggerSpecs up to its first await: the cached specification is
\* returned, or generateDocumentation is started with now remembered
GetSwaggerSpecs ==
    /\ IF CacheHit
       THEN /\ served' = "cached"
            /\ UNCHANGED generating
       ELSE /\ Len(generating) < MaxGenerating
            /\ generating' = Append(generating, [now |-> clock, cleared |-> FALSE])
            /\ UNCHANGED served
    /\ UNCHANGED <<cachedSpecs, lastGenerated, nodeEnv, clock, generatedAt, invalidated>>
    /\ SwaggerFrame

\* the rest of getSwaggerSpecs, after generateDocumentation settled
GenerateSettles(i, outcome) ==
    /\ i \in DOMAIN generating
    /\ generating' = RemoveAt(generating, i)
    /\ IF outcome = "throws"
       THEN /\ served' = "fallback"
            /\ UNCHANGED <<cachedSpecs, lastGenerated, generatedAt, invalidated>>
       ELSE /\ cachedSpecs' = Some(generating[i].now)
            /\ lastGenerated' = Some(generating[i].now)
            /\ served' = IF outcome = "specs" THEN "generated" ELSE "fallback"
            /\ generatedAt' = Some(generating[i].now)
            /\ invalidated' = generating[i].cleared
    /\ UNCHANGED <<nodeEnv, clock>>
    /\ SwaggerFrame

\* regenerateSwaggerDocs, as POST /api-docs/regenerate calls it
RegenerateSwaggerDocs ==
    /\ cachedSpecs' = None
    /\ lastGenerated' = None
    /\ invalidated' = TRUE
    /\ generating' = [i \in DOMAIN generating |-> [generating[i] EXCEPT !.cleared = TRUE]]
    /\ UNCHANGED <<nodeEnv, clock, served, generatedAt>>
    /\ SwaggerFrame

(***************************************************************************)
(* service/swagger/watcher.js: the development file watcher.  Its clock    *)
(* counts half seconds.                                                    *)
(***************************************************************************)
MaxTicks == 4
DebounceDelay == 2
WatchedFiles == {"routes/reminders.js", "db/index.js", "prisma/schema.prisma"}
FileEventKinds == {"change", "add", "unlink"}

InitWatcher ==
    /\ watcher = "loading"
    /\ regenerateTimeout = None
    /\ ticks = 0
    /\ issued = <<>>
    /\ lastEvent = None

WatcherFrame == UNCHANGED <<reminderVars, calendarVars, validateVars, authVars, swaggerVars>>

\* the evaluation of the module: const __dirname = path.dirname(__dirname)
\* reads __dirname inside its own initialiser, where the binding is still
\* uninitialised, so the evaluation ends with a ReferenceError before
\* chokidar.watch and the .on(...) calls are reached
LoadWatcher ==
    /\ watcher = "loading"
    /\ watcher' = "crashed"
    /\ UNCHANGED <<regenerateTimeout, ticks, issued, lastEvent>>
    /\ WatcherFrame

\* clearTimeout(regenerateTimeout); regenerateTimeout = setTimeout(..., 1000)
debounceRegenerate(filePath) == Some([due |-> ticks + DebounceDelay, path |-> filePath])

\* the number of the burst an event at the present moment belongs to
BurstOfEvent ==
    IF lastEvent = None THEN 1
    ELSE IF ticks - lastEvent.at < DebounceDelay THEN lastEvent.burst
    ELSE lastEvent.burst + 1

\* a file below the watched paths is changed, added or removed after the
\* module was evaluated; the handlers run only if they were registered
FileEvent(kind, filePath) ==
    /\ watcher # "loading"
    /\ lastEvent' = [kind |-> kind, path |-> filePath, at |-> ticks, burst |-> BurstOfEvent]
    /\ regenerateTimeout' = IF watcher = "watching"
                            THEN debounceRegenerate(filePath)
                            ELSE regenerateTimeout
    /\ UNCHANGED <<watcher, ticks, issued>>
    /\ WatcherFrame

\* half a second passes; a timeout that is due runs its callback, which
\* calls regenerateSwaggerDocs(filePath)
WatcherTick ==
    /\ ticks < MaxTicks
    /\ ticks' = ticks + 1
    /\ IF watcher = "watching" /\ IsSome(regenerateTimeout)
          /\ Val(regenerateTimeout).due <= ticks + 1
       THEN /\ issued' = Append(issued, [path |-> Val(regenerateTimeout).path, at |-> ticks + 1])
            /\ regenerateTimeout' = None
       ELSE UNCHANGED <<issued, regenerateTimeout>>
    /\ UNCHANGED <<watcher, lastEvent>>
    /\ WatcherFrame

----------------------------------------------------------------------------
(* The specifications *)

Init ==
    /\ InitReminders /\ InitCalendar /\ InitValidate /\ InitAuth
    /\ InitSwagger /\ InitWatcher

(* Requests served one after the other *)
Next ==
    \/ Tick
    \/ \E body \in CreateBodies : PostReminder(body)
    \/ \E userId \in Users, q \in DaysParams : GetUpcoming(userId, q)
    \/ \E id \in Ids : PatchComplete(id)
    \/ \E id \in Ids, body \in UpdateBodies : PutReminder(id, body)
    \/ \E id \in Ids : DeleteReminder(id)

Spec == Init /\ [][Next]_vars

(* Completion requests that overlap: each is an arrival and, later, the    *)
(* application of its update                                               *)
NextConcurrent ==
    \/ \E body \in RecurringBodies : PostReminder(body)
    \/ \E id \in Ids : PatchCompleteReceive(id)
    \/ \E id \in Ids : PatchCompleteCommit(id)
    \/ \E id \in Ids : DeleteReminder(id)

SpecConcurrent == Init /\ [][NextConcurrent]_vars

(* The calendar-event service called in any order, next to requests that   *)
(* POST a reminder                                                         *)
CheckedBodies ==
    { body \in CreateBodies :
          \/ body.userId = "" \/ body.title = "" \/ ~IsSome(body.dueDate)
          \/ body = Body("u2", "t1", Some(DateText(2)), OneTimeRule) }

NextCalendar ==
    \/ \E eventData \in EventBodies : CalendarCreate(eventData)
    \/ \E userId \in Users : CalendarGetByUser(userId)
    \/ \E eventId \in EventIds, eventData \in EventUpdates : CalendarUpdate(eventId, eventData)
    \/ \E eventId \in EventIds : CalendarDelete(eventId)
    \/ \E body \in CheckedBodies : PostReminder(body)

SpecCalendar == Init /\ [][NextCalendar]_vars

(* Requests that carry recurrence rules, served one after the other on     *)
(* 2024-01-31: a monthly reminder anchored on that day, intervals of 0 and *)
(* below, and a body without an interval                                   *)
MonthlyRule == [repeatType |-> "monthly", repeatUntil |-> None, interval |-> Some(1)]

RuleBodies ==
    { Body("u1", "t1", Some(DateText(MakeDay(2024, 1, 31))), MonthlyRule),
      Body("u1", "t1", Some(DateText(MakeDay(2024, 1, 31))),
           [DailyRule EXCEPT !.interval = Some(0)]),
      Body("u1", "t1", Some(DateText(MakeDay(2024, 2, 29))),
           [MonthlyRule EXCEPT !.interval = Some(0 - 1)]),
      Body("u2", "t1", Some(DateText(MakeDay(2024, 1, 31))),
           [MonthlyRule EXCEPT !.interval = None]) }

RuleUpdates ==
    { [EmptyUpdate EXCEPT !.interval = Some(0)],
      [EmptyUpdate EXCEPT !.interval = Some(2)] }

RuleDaysParams == {None, Some(28), Some(29)}

InitRules ==
    /\ reminders = <<>>
    /\ nextId = 1
    /\ now = MakeDay(2024, 1, 31)
    /\ pending = [id \in Ids |-> 0]
    /\ response = NoResponse
    /\ repeated = FALSE
    /\ done = {}
    /\ changes = [id \in Ids |-> 0]
    /\ overlapped = [id \in Ids |-> FALSE]
    /\ InitCalendar
    /\ InitValidate
    /\ InitAuth
    /\ InitSwagger /\ InitWatcher

NextRules ==
    \/ \E body \in RuleBodies : PostReminder(body)
    \/ \E userId \in Users, q \in RuleDaysParams : GetUpcoming(userId, q)
    \/ \E id \in Ids : PatchComplete(id)
    \/ \E id \in Ids, body \in RuleUpdates : PutReminder(id, body)
    \/ \E id \in Ids : DeleteReminder(id)

SpecRules == InitRules /\ [][NextRules]_vars

(* The app from its start, with or without a session kept in storage: the  *)
(* startup check, sign-in, sign-up, sign-out and profile updates, and      *)
(* components that call useAuth                                            *)
InitAuthStart ==
    /\ InitReminders /\ InitCalendar /\ InitValidate
    /\ InitSwagger /\ InitWatcher
    /\ user = None
    /\ isLoading = TRUE
    /\ storage \in {NoSession, StoredSession}
    /\ tasks = [checkAuthState |-> Task("start", None), signIn |-> Idle,
                signUp |-> Idle, signOut |-> Idle]
    /\ hookResult = [inside |-> NoResult, outside |-> NoResult]

NextAuth ==
    \/ CheckGetToken
    \/ \E outcome \in FetchOutcomes : CheckFetch(outcome)
    \/ CheckRemoveToken
    \/ CheckRemoveData
    \/ \E op \in SignOps : SignStart(op)
    \/ \E op \in SignOps, outcome \in FetchOutcomes : SignFetch(op, outcome)
    \/ \E op \in SignOps : SignSetToken(op)
    \/ \E op \in SignOps : SignSetData(op)
    \/ SignOutGetToken
    \/ \E outcome \in LogoutOutcomes : SignOutLogout(outcome)
    \/ SignOutRemoveToken
    \/ SignOutRemoveData
    \/ UpdateUser(RenamedUser)
    \/ \E inside \in BOOLEAN : Render(inside)

SpecAuth == InitAuthStart /\ [][NextAuth]_vars

(* Requests that list a user's reminders, next to requests that create,    *)
(* complete and delete one-time reminders                                  *)
OneTimeBodies == {body \in CreateBodies : body.repeatType = OneTimeRule.repeatType}

NextByUser ==
    \/ \E body \in OneTimeBodies : PostReminder(body)
    \/ \E userId \in Users, param \in IncludeParams : GetByUser(userId, param)
    \/ \E id \in Ids : PatchComplete(id)
    \/ \E id \in Ids : DeleteReminder(id)

SpecByUser == Init /\ [][NextByUser]_vars

(* The app with its operations run one at a time: an operation is started  *)
(* only when no other one stands at an await                               *)
NextSession ==
    \/ CheckGetToken
    \/ \E outcome \in FetchOutcomes : CheckFetch(outcome)
    \/ CheckRemoveToken
    \/ CheckRemoveData
    \/ \E op \in SignOps : ~Busy /\ SignStart(op)
    \/ \E op \in SignOps, outcome \in FetchOutcomes : SignFetch(op, outcome)
    \/ \E op \in SignOps : SignSetToken(op)
    \/ \E op \in SignOps : SignSetData(op)
    \/ ~Busy /\ SignOutGetToken
    \/ \E outcome \in LogoutOutcomes : SignOutLogout(outcome)
    \/ SignOutRemoveToken
    \/ SignOutRemoveData
    \/ ~Busy /\ UpdateUser(RenamedUser)
    \/ \E inside \in BOOLEAN : Render(inside)

SpecSession == InitAuthStart /\ [][NextSession]_vars

(* The operations of AuthProvider in any interleaving, where every storage *)
(* and network call that was awaited eventually returns or throws          *)
NextLoading ==
    \/ CheckGetToken
    \/ \E outcome \in FetchOutcomes : CheckFetch(outcome)
    \/ CheckRemoveToken
    \/ CheckRemoveData
    \/ \E op \in SignOps : SignStart(op)
    \/ \E op \in SignOps, outcome \in FetchOutcomes : SignFetch(op, outcome)
    \/ \E op \in SignOps : SignSetToken(op)
    \/ \E op \in SignOps : SignSetData(op)
    \/ SignOutGetToken
    \/ \E outcome \in LogoutOutcomes : SignOutLogout(outcome)
    \/ SignOutRemoveToken
    \/ SignOutRemoveData
    \/ UpdateUser(RenamedUser)

AwaitsReturn ==
    /\ WF_vars(CheckGetToken)
    /\ WF_vars(\E outcome \in FetchOutcomes : CheckFetch(outcome))
    /\ WF_vars(CheckRemoveToken)
    /\ WF_vars(CheckRemoveData)
    /\ \A op \in SignOps :
          /\ WF_vars(\E outcome \in FetchOutcomes : SignFetch(op, outcome))
          /\ WF_vars(SignSetToken(op))
          /\ WF_vars(SignSetData(op))
    /\ WF_vars(\E outcome \in LogoutOutcomes : SignOutLogout(outcome))
    /\ WF_vars(SignOutRemoveToken)
    /\ WF_vars(SignOutRemoveData)

SpecLoading == InitAuthStart /\ [][NextLoading]_vars /\ AwaitsReturn

(* The documentation cache, in production and outside it *)
InitSwaggerStart ==
    /\ InitReminders /\ InitCalendar /\ InitValidate /\ InitAuth /\ InitWatcher
    /\ cachedSpecs = None
    /\ lastGenerated = None
    /\ nodeEnv \in NodeEnvs
    /\ clock = 1
    /\ generating = <<>>
    /\ served = "nothing"
    /\ generatedAt = None
    /\ invalidated = FALSE

NextSwagger ==
    \/ ClockTick
    \/ GetSwaggerSpecs
    \/ \E i \in 1..MaxGenerating, outcome \in GenerateOutcomes : GenerateSettles(i, outcome)
    \/ RegenerateSwaggerDocs

SpecSwagger == InitSwaggerStart /\ [][NextSwagger]_vars

(* The watcher process and the files it was meant to watch *)
NextWatcher ==
    \/ LoadWatcher
    \/ \E kind \in FileEventKinds, filePath \in WatchedFiles : FileEvent(kind, filePath)
    \/ WatcherTick

SpecWatcher == Init /\ [][NextWatcher]_vars

(* The validation helpers, each tried on one text *)
InitValidateDate ==
    /\ InitReminders /\ InitCalendar /\ InitAuth
    /\ InitSwagger /\ InitWatcher
    /\ valInput \in DateTexts
    /\ valResult = NoResult

SpecValidateDate == InitValidateDate /\ [][ValidateDate]_vars

InitValidateTime ==
    /\ InitReminders /\ InitCalendar /\ InitAuth
    /\ InitSwagger /\ InitWatcher
    /\ valInput \in TimeTexts
    /\ valResult = NoResult

SpecValidateTime == InitValidateTime /\ [][ValidateTime]_vars

----------------------------------------------------------------------------
(* Properties of the upcoming query and of completion *)

Recurring(row) == row.repeatType \in {"daily", "weekly", "monthly"}
NonRecurring(row) == row.repeatType \in {"none", "absent"}

UpcomingReply == response.op = "upcoming" /\ response.status = 200
CompleteReply == response.op = "complete" /\ response.status = 200
Returned == Range(response.ids)
WindowEnd == now + response.days

(* every result the upcoming query can give in the current state, for any  *)
(* user and any horizon, leaves out the row id                             *)
NeverReturned(id) ==
    \A u \in Users, q \in DaysParams :
        \A s \in getUpcoming(reminders, u, RouteDays(q), now) : id \notin Range(s)

(* C1: every reminder the upcoming query returns is due neither before now *)
(* nor after now + days (stated for the one-time reminders, whose only     *)
(* occurrence is their dueDate).                                           *)
C1_ReturnedWithinWindow ==
    UpcomingReply =>
        \A id \in Returned :
            NonRecurring(reminders[id]) =>
                /\ now <= reminders[id].dueDate
                /\ reminders[id].dueDate <= WindowEnd

(* C2: the upcoming query never returns a non-recurring reminder whose     *)
(* completed field is true.                                                *)
C2_NoCompletedOneTime ==
    UpcomingReply =>
        \A id \in Returned :
            NonRecurring(reminders[id]) => ~reminders[id].completed

C2_Witness ==
    /\ UpcomingReply
    /\ \E id \in DOMAIN reminders :
          /\ NonRecurring(reminders[id])
          /\ reminders[id].completed
          /\ reminders[id].userId = response.userId
          /\ reminders[id].dueDate <= WindowEnd
          /\ id \notin Returned

(* C3: a successful markCompleted on a recurring reminder whose rule has   *)
(* no end (so it is never exhausted) leaves completed = false.             *)
C3_RecurringStaysActive ==
    CompleteReply =>
        LET row == reminders[response.ids[1]]
        IN  (Recurring(row) /\ row.repeatUntil = None) => ~row.completed

(* C4: a recurring reminder with a repeatUntil, once markCompleted has     *)
(* succeeded on it, is completed and no upcoming query returns it, for any *)
(* user, horizon and later clock value.                                    *)
C4_ExhaustedNeverUpcoming ==
    \A id \in done :
        (Recurring(reminders[id]) /\ IsSome(reminders[id].repeatUntil)) =>
            /\ reminders[id].completed
            /\ NeverReturned(id)

C4_Witness ==
    /\ UpcomingReply
    /\ \E id \in done :
          /\ Recurring(reminders[id])
          /\ IsSome(reminders[id].repeatUntil)
          /\ Val(reminders[id].repeatUntil) <= reminders[id].dueDate
          /\ reminders[id].userId = response.userId
          /\ reminders[id].dueDate <= WindowEnd
          /\ now >= 1
          /\ id \notin Returned

(* C5: markCompleted on a non-recurring reminder that is already completed *)
(* succeeds and leaves the stored reminders as they were.                  *)
C5_SecondCompletionNoOp ==
    [][ \A id \in Ids :
          ( /\ PatchComplete(id)
            /\ id \in DOMAIN reminders
            /\ NonRecurring(reminders[id])
            /\ reminders[id].completed )
          => (reminders' = reminders /\ response'.status = 200) ]_vars

C5_Witness ==
    /\ CompleteReply
    /\ repeated
    /\ NonRecurring(reminders[response.ids[1]])
    /\ reminders[response.ids[1]].completed

(* C6: whatever the interleaving of completion requests, the completions   *)
(* of one reminder change its stored row at most once.                     *)
C6_AtMostOneAdvance ==
    \A id \in Ids : changes[id] <= 1

C6_Witness ==
    /\ CompleteReply
    /\ repeated
    /\ LET id == response.ids[1]
       IN  /\ Recurring(reminders[id])
           /\ overlapped[id]
           /\ pending[id] = 0

(* C7: the upcoming query changes no stored reminder.                      *)
C7_UpcomingReadOnly ==
    [][ (response'.op = "upcoming" /\ \E u \in Users, q \in DaysParams : GetUpcoming(u, q))
        => (reminders' = reminders /\ nextId' = nextId) ]_vars

C7_Witness ==
    UpcomingReply /\ Len(response.ids) > 0

(* C8: the result of the upcoming query is in ascending order of due       *)
(* moment, and entries with equal moments are in ascending order of id.    *)
C8_SortedWithIdTieBreak ==
    UpcomingReply =>
        \A i, j \in 1..Len(response.ids) :
            i < j =>
                LET a == response.ids[i]
                    b == response.ids[j]
                IN  \/ reminders[a].dueDate < reminders[b].dueDate
                    \/ /\ reminders[a].dueDate = reminders[b].dueDate
                       /\ a < b

(* C9: every non-recurring, uncompleted reminder of the queried user that  *)
(* is due within [now, now + days] is in the result of the upcoming query. *)
C9_DueOneTimeIncluded ==
    UpcomingReply =>
        \A id \in DOMAIN reminders :
            ( /\ reminders[id].userId = response.userId
              /\ NonRecurring(reminders[id])
              /\ ~reminders[id].completed
              /\ now <= reminders[id].dueDate
              /\ reminders[id].dueDate <= WindowEnd )
            => id \in Returned

C9_Witness ==
    /\ UpcomingReply
    /\ \E id \in Returned :
          /\ NonRecurring(reminders[id])
          /\ reminders[id].dueDate = WindowEnd
          /\ now < reminders[id].dueDate

(* C10: once the pending occurrence d of a daily reminder with interval    *)
(* i > 0 and no end is acknowledged, its next occurrence is d + i days:    *)
(* every upcoming query whose window holds d + i returns the reminder.     *)
C10_DailyNextOccurrence ==
    [][ \A id \in Ids :
          ( /\ PatchComplete(id)
            /\ id \in DOMAIN reminders
            /\ reminders[id].repeatType = "daily"
            /\ IsSome(reminders[id].interval)
            /\ Val(reminders[id].interval) > 0
            /\ reminders[id].repeatUntil = None
            /\ ~reminders[id].completed )
          => \A q \in DaysParams :
                LET next == reminders[id].dueDate + Val(reminders[id].interval)
                IN  (now <= next /\ next <= now + RouteDays(q)) =>
                        \A s \in getUpcoming(reminders', reminders[id].userId,
                                             RouteDays(q), now) :
                            id \in Range(s) ]_vars

----------------------------------------------------------------------------
(* Properties of requests that name a reminder that does not exist *)

(* C18: a completion or an update addressed to an id that names no         *)
(* reminder is answered 404 Not Found, and changes no reminder.            *)
C18_MissingIdAnswered404 ==
    [][\A id \in Ids :
          (/\ response'.op \in {"complete", "update"}
           /\ id \notin DOMAIN reminders
           /\ \/ PatchComplete(id)
              \/ \E body \in UpdateBodies : PutReminder(id, body))
          => (response'.status = 404 /\ reminders' = reminders)]_vars

(* C19: DELETE /api/reminders/:id for an id that names no reminder (never  *)
(* created, or deleted before) is answered as a success and leaves the     *)
(* table as it was.                                                        *)
C19_DeleteIdempotent ==
    [][\A id \in Ids :
          (/\ response'.op = "delete"
           /\ id \notin DOMAIN reminders
           /\ DeleteReminder(id))
          => (response'.status = 200 /\ reminders' = reminders)]_vars

----------------------------------------------------------------------------
(* Properties of the validation helpers *)

(* a text that names a day of the calendar in the form YYYY-MM-DD *)
RealDateText(text) ==
    /\ text.form = "ymd"
    /\ text.m \in 1..12
    /\ text.d \in 1..DaysInMonth(text.y, text.m)

(* C14: _validateDate rejects (throws on) every non-empty text that is not *)
(* a real calendar date in the form YYYY-MM-DD, such as 2024-02-30 or      *)
(* 2023-02-29: such a text is never turned into a neighbouring date.       *)
C14_ValidateDateStrict ==
    (valResult.kind # "none" /\ valInput.form \in {"ymd", "junk"}
        /\ ~RealDateText(valInput))
    => valResult.kind = "throw"

(* a two-digit hour 00..23, a colon, a two-digit minute 00..59 *)
TwoDigitTime(text) ==
    /\ text.form = "time"
    /\ text.sep = ":"
    /\ Len(text.hour) = 2 /\ 10 * text.hour[1] + text.hour[2] \in 0..23
    /\ Len(text.minute) = 2 /\ 10 * text.minute[1] + text.minute[2] \in 0..59

(* C15: _validateTime accepts a non-empty text exactly when it is a        *)
(* two-digit hour 00..23, a colon and a two-digit minute 00..59; a         *)
(* one-digit hour such as 9:30 is rejected.                                *)
C15_ValidateTimeExact ==
    (valResult.kind # "none" /\ valInput.form = "time")
    => (valResult.kind = "value" <=> TwoDigitTime(valInput))

----------------------------------------------------------------------------
(* Properties of the paths that store a date, and of failed validation *)

(* C16: a path that stores a date validates it strictly: create called     *)
(* with a recurringEndDate that is not a real calendar date is rejected    *)
(* and stores nothing.                                                     *)
C16_StoredDatesValidated ==
    [][\A eventData \in EventBodies :
          (/\ Truthy(eventData.recurringEndDate)
           /\ ~RealDateText(Val(eventData.recurringEndDate))
           /\ CalendarCreate(eventData))
          => (~calResult'.ok /\ events' = events)]_vars

(* C17: a failed validation never causes a write: a calendarEventService   *)
(* call that ends in an Error leaves the CalendarEvent table as it was,    *)
(* and a POST /api/reminders answered 400 leaves the Reminder table as it  *)
(* was.                                                                    *)
C17_FailedValidationWritesNothing ==
    [][/\ ~calResult'.ok => (events' = events /\ nextEventId' = nextEventId)
       /\ response'.status = 400 => (reminders' = reminders /\ nextId' = nextId)]_vars

C17_Witness ==
    /\ calResult.op = "update"
    /\ calResult.error = "Invalid date format. Use YYYY-MM-DD"
    /\ \E id \in DOMAIN events : events[id].title = "e"
    /\ response.status = 400
    /\ reminders # <<>>

----------------------------------------------------------------------------
(* Properties of recurrence rules *)

(* the days of the first two weeks of a weekly rule of interval 1: the     *)
(* days from the anchor on whose weekday is one of the selected weekdays   *)
WeeklyOccurrences(anchor, weekdays) ==
    {day \in anchor..(anchor + 13) : WeekDay(day) \in weekdays}

(* C12: a weekly event with a non-empty set of weekdays occurs on each     *)
(* selected weekday of every week from its anchor on: {Mon, Wed} anchored  *)
(* on Monday 2024-03-04 occurs on Mar 4, Mar 6, Mar 11 and Mar 13, so the  *)
(* events listed for its user fall on each of these days.                  *)
C12_WeeklyDaysOfWeek ==
    [][\A userId \in Users :
          CalendarGetByUser(userId) =>
              \A id \in DOMAIN events :
                  (/\ events[id].userId = userId
                   /\ events[id].recurring = Some("weekly")
                   /\ IsSome(events[id].recurringDays)
                   /\ Val(events[id].recurringDays) # {})
                  => WeeklyOccurrences(events[id].date, Val(events[id].recurringDays))
                         \subseteq Range(calResult'.dates)]_vars

(* the civil date of a day number, and the date a monthly rule reaches     *)
(* from it: the same day of the month `interval` months on, or the last    *)
(* day of that month when it is shorter                                    *)
CivilDate(day) ==
    CHOOSE c \in [y : 2023..2025, m : 1..12, d : 1..31] :
        c.d <= DaysInMonth(c.y, c.m) /\ MakeDay(c.y, c.m, c.d) = day

MonthlyNext(day, interval) ==
    LET c == CivilDate(day)
        months == (c.m - 1) + interval
        y == c.y + (months \div 12)
        m == (months % 12) + 1
    IN  MakeDay(y, m, Min(c.d, DaysInMonth(y, m)))

(* C11: once the pending occurrence of a monthly reminder with interval    *)
(* i > 0 and no end is acknowledged, its next occurrence is the same day   *)
(* of the month i months on, clamped to the last day of a shorter month    *)
(* (2024-01-31 is followed by 2024-02-29): every upcoming query whose      *)
(* window holds that day returns the reminder.                             *)
C11_MonthlyNextOccurrence ==
    [][ \A id \in Ids :
          ( /\ PatchComplete(id)
            /\ id \in DOMAIN reminders
            /\ reminders[id].repeatType = "monthly"
            /\ IsSome(reminders[id].interval)
            /\ Val(reminders[id].interval) > 0
            /\ reminders[id].repeatUntil = None
            /\ ~reminders[id].completed )
          => \A q \in RuleDaysParams :
                LET next == MonthlyNext(reminders[id].dueDate,
                                        Val(reminders[id].interval))
                IN  (now <= next /\ next <= now + RouteDays(q)) =>
                        \A s \in getUpcoming(reminders', reminders[id].userId,
                                             RouteDays(q), now) :
                            id \in Range(s) ]_vars

(* C13: no stored reminder has an interval of 0 or below: a create or an   *)
(* update that carries such an interval is rejected and writes nothing.    *)
C13_IntervalPositive ==
    \A id \in DOMAIN reminders :
        IsSome(reminders[id].interval) => Val(reminders[id].interval) > 0

----------------------------------------------------------------------------
(* Properties of the useAuth hook *)

(* C20: useAuth returns the authentication context (the value of the       *)
(* AuthProvider above the component) when it is called inside an           *)
(* AuthProvider, and throws 'useAuth must be used within an AuthProvider'  *)
(* when it is called with no AuthProvider above.                           *)
C20_UseAuthInsideOrThrows ==
    [][/\ Render(TRUE) =>
            /\ hookResult'.inside.kind = "value"
            /\ hookResult'.inside.value = Some([user |-> user, isLoading |-> isLoading])
       /\ Render(FALSE) =>
            /\ hookResult'.outside.kind = "throw"
            /\ hookResult'.outside.error = "useAuth must be used within an AuthProvider"]_vars

C20_Witness ==
    /\ hookResult.outside.kind = "throw"
    /\ hookResult.inside.kind = "value"
    /\ Val(hookResult.inside.value).user = Some(AuthUser)

----------------------------------------------------------------------------
(* Properties of the horizon parameter and of the completed field *)

(* C26: GET /upcoming/:userId uses as its horizon the integer given in the *)
(* days query parameter whenever one is supplied, days=0 included, and the *)
(* default of 7 days only when the parameter is absent or not a number.    *)
C26_SuppliedDaysUsed ==
    [][\A userId \in Users, q \in DaysParams :
          (response'.op = "upcoming" /\ GetUpcoming(userId, q))
          => response'.days = IF IsSome(q) THEN Val(q) ELSE DefaultDays]_vars

(* C29: completion is monotonic: no request sets the completed field of a  *)
(* reminder back to false, and a completion changes no field of the        *)
(* reminder other than completed.                                          *)
C29_CompletionMonotonic ==
    [][\A id \in DOMAIN reminders :
          /\ (id \in DOMAIN reminders' /\ reminders[id].completed)
                => reminders'[id].completed
          /\ (response'.op = "complete" /\ PatchComplete(id))
                => reminders'[id] = [reminders[id] EXCEPT !.completed = TRUE]]_vars

C29_Witness ==
    /\ response.op = "update" /\ response.status = 200
    /\ \E id \in done :
          /\ reminders[id].completed
          /\ reminders[id].repeatType = "weekly"
          /\ IsSome(reminders[id].repeatUntil)
          /\ reminders[id].dueDate = 2

----------------------------------------------------------------------------
(* Properties of the list of a user's reminders *)

(* C23: GET /user/:userId returns the uncompleted reminders of that user,  *)
(* and all reminders of that user when (and only when) the includeCompleted *)
(* parameter is exactly the string 'true'; either way the result is sorted *)
(* by dueDate ascending.                                                   *)
C23_ByUserFilterAndOrder ==
    [][\A userId \in Users, param \in IncludeParams :
          (response'.op = "byUser" /\ GetByUser(userId, param))
          => LET ids == response'.ids
             IN  /\ Range(ids) =
                        { id \in DOMAIN reminders :
                              /\ reminders[id].userId = userId
                              /\ param = Some("true") \/ ~reminders[id].completed }
                 /\ \A i, j \in 1..Len(ids) :
                        i < j => /\ ids[i] # ids[j]
                                 /\ reminders[ids[i]].dueDate <= reminders[ids[j]].dueDate]_vars

C23_Witness ==
    /\ response.op = "byUser"
    /\ Len(response.ids) = 2
    /\ reminders[response.ids[1]].dueDate < reminders[response.ids[2]].dueDate
    /\ \E id \in Range(response.ids) : reminders[id].completed

----------------------------------------------------------------------------
(* Properties of the operations of AuthProvider *)

(* C24: on app start with a stored token, the startup check sets user only *)
(* when /api/auth/me answers ok with success = true; in every other        *)
(* outcome (a response that is not ok or not a success, a thrown error)    *)
(* user stays null and the check ends with both @user_token and @user_data *)
(* removed from storage.                                                   *)
C24_StartupCheck ==
    [][LET started == tasks.checkAuthState.pc # "done"
           completes == started /\ tasks'.checkAuthState.pc = "done"
       IN  /\ CheckFetch("success") => user' = Some(AuthUser)
           /\ (started /\ ~CheckFetch("success")) => user' = None
           /\ (completes /\ tasks.checkAuthState.pc # "start" /\ ~CheckFetch("success"))
                 => storage' = NoSession]_vars

C24_Witness ==
    /\ tasks.checkAuthState.pc = "removeData"
    /\ storage.token = None
    /\ IsSome(storage.data)
    /\ user = None
    /\ isLoading

(* C25: when signOut completes, user is null and both @user_token and      *)
(* @user_data are absent from storage, whether the logout call returned,   *)
(* threw, or was skipped because no token was stored.                      *)
C25_SignOutClears ==
    [][(tasks.signOut.pc # "idle" /\ tasks'.signOut.pc = "idle")
          => (user' = None /\ storage' = NoSession)]_vars

C25_Witness ==
    /\ ~Busy
    /\ user = None
    /\ storage = NoSession
    /\ hookResult.inside.kind = "value"
    /\ Val(hookResult.inside.value).user = Some(RenamedUser)

(* C27: in every interleaving of checkAuthState, signIn, signUp and        *)
(* signOut, whenever no operation is in progress, user is non-null only if *)
(* a token is stored under @user_token.                                    *)
C27_UserOnlyWithToken ==
    ~Busy => (IsSome(user) => IsSome(storage.token))

(* C28: the app always leaves the loading screen: whenever isLoading is    *)
(* true it eventually becomes false, and the navigator then shows the app  *)
(* stack if user is non-null and the auth stack otherwise.                 *)
C28_LeavesLoadingScreen ==
    isLoading ~> (/\ ~isLoading
                  /\ AppNavigator(ContextValue) =
                         IF IsSome(user) THEN "AppStack" ELSE "AuthStack")

C28_Witness ==
    /\ ~isLoading
    /\ ~Busy
    /\ IsSome(user)
    /\ storage = StoredSession
    /\ AppNavigator(ContextValue) = "AppStack"

\* a successful generation whose call read the clock less than
\* CACHE_DURATION ago, with no regenerateSwaggerDocs since, in production
FreshGeneration ==
    /\ nodeEnv = "production"
    /\ IsSome(generatedAt)
    /\ clock - Val(generatedAt) < CACHE_DURATION
    /\ ~invalidated

\* C21: a getSwaggerSpecs call returns the cached specification without
\* starting a generation exactly when, in production, a generation succeeded
\* less than 5 minutes before and regenerateSwaggerDocs was not called
\* since; in every other case (after regenerateSwaggerDocs, after the 5
\* minutes, outside production) the call regenerates.
C21_CachedExactlyWhenFresh ==
    [][GetSwaggerSpecs => (FreshGeneration <=> generating' = generating)]_vars

\* C22: once DebounceDelay has passed since the last event of a burst, one
\* regeneration request has been issued per burst, the last of them not
\* before DebounceDelay after that event and with that event's path; while
\* the burst lasts, no request has been issued for it.
C22_OneRequestPerBurst ==
    lastEvent # None =>
        IF ticks - lastEvent.at >= DebounceDelay
        THEN /\ Len(issued) = lastEvent.burst
             /\ issued[Len(issued)].path = lastEvent.path
             /\ issued[Len(issued)].at >= lastEvent.at + DebounceDelay
        ELSE Len(issued) = lastEvent.burst - 1

====
